---- MODULE Spec2Model ----
(***************************************************************************)
(* A model of the static code analyzer in src/main.py.                     *)
(*                                                                         *)
(* Text is modelled as sequences of one-character strings, so that the     *)
(* string operations of the program (find, strip, slicing, regular         *)
(* expressions, lexicographic comparison) are computed rather than         *)
(* assumed.  The main loop of main() is a state machine over the files of  *)
(* a run; the rule classes are operators on lines.                         *)
(***************************************************************************)
EXTENDS Integers, Sequences, FiniteSets

(***************************************************************************)
(* Characters                                                              *)
(***************************************************************************)
LowerSeq == << "a","b","c","d","e","f","g","h","i","j","k","l","m",
               "n","o","p","q","r","s","t","u","v","w","x","y","z" >>
UpperSeq == << "A","B","C","D","E","F","G","H","I","J","K","L","M",
               "N","O","P","Q","R","S","T","U","V","W","X","Y","Z" >>
DigitSeq == << "0","1","2","3","4","5","6","7","8","9" >>

Range(f) == { f[k] : k \in DOMAIN f }

LowerChars == Range(LowerSeq)
UpperChars == Range(UpperSeq)
DigitChars == Range(DigitSeq)
\* str.isspace() and the regular-expression class \s, over ASCII
SpaceChars == { " ", "\t", "\n", "\r", "\f" }
\* the regular-expression class \w (which contains \d and "_")
WordChars == LowerChars \cup UpperChars \cup DigitChars \cup { "_" }

\* The characters of the model in code-point order: Python compares strings
\* code point by code point.
AsciiSeq == << "\t", "\n", "\f", "\r", " ", "#", "(", ")", ",", "-", ".", "/" >>
            \o DigitSeq \o << ":", ";", "=" >> \o UpperSeq
            \o << "[", "]", "_" >> \o LowerSeq \o << "{", "}" >>

Ord(c) == CHOOSE k \in DOMAIN AsciiSeq : AsciiSeq[k] = c

\* str.lower() on one character
LowerChar(c) ==
    IF c \in UpperChars
    THEN LowerSeq[CHOOSE k \in DOMAIN UpperSeq : UpperSeq[k] = c]
    ELSE c

(***************************************************************************)
(* Strings                                                                 *)
(***************************************************************************)
\* s[a:b] of Python with 0 <= a, b (0-based, b exclusive)
Slice(s, a, b) == SubSeq(s, a + 1, b)

\* str.find(c): the 0-based offset of the first c, or -1
Find(s, c) ==
    IF \E k \in 1..Len(s) : s[k] = c
    THEN (CHOOSE k \in 1..Len(s) : s[k] = c /\ \A j \in 1..(k - 1) : s[j] # c) - 1
    ELSE -1

\* str.rstrip()
RStrip(s) ==
    LET keep == { k \in 1..Len(s) : s[k] \notin SpaceChars }
    IN  IF keep = {} THEN << >>
        ELSE SubSeq(s, 1, CHOOSE k \in keep : \A j \in keep : j <= k)

\* str.lstrip()
LStrip(s) ==
    LET keep == { k \in 1..Len(s) : s[k] \notin SpaceChars }
    IN  IF keep = {} THEN << >>
        ELSE SubSeq(s, CHOOSE k \in keep : \A j \in keep : k <= j, Len(s))

\* str.startswith(p)
StartsWith(s, p) == Len(s) >= Len(p) /\ SubSeq(s, 1, Len(p)) = p

\* str.lower()
Lower(s) == [ k \in 1..Len(s) |-> LowerChar(s[k]) ]

\* sub in s
Contains(s, sub) ==
    \E k \in 0..(Len(s) - Len(sub)) : Slice(s, k, k + Len(sub)) = sub

\* a < b for Python strings
RECURSIVE StrLess(_, _)
StrLess(a, b) ==
    IF b = << >> THEN FALSE
    ELSE IF a = << >> THEN TRUE
    ELSE IF Head(a) # Head(b) THEN Ord(Head(a)) < Ord(Head(b))
    ELSE StrLess(Tail(a), Tail(b))

\* str.split('\n')
RECURSIVE Split(_)
Split(s) ==
    LET n == Find(s, "\n")
    IN  IF n = -1 THEN << s >>
        ELSE << Slice(s, 0, n) >> \o Split(Slice(s, n + 1, Len(s)))

(***************************************************************************)
(* Regular expressions: re.match(pattern, text) succeeds iff some prefix   *)
(* of text is in the pattern's language.  MatchEnds gives the offsets at   *)
(* which a match that starts at offset i can end.                          *)
(***************************************************************************)
Cls(S)  == [ t |-> "cls", s |-> S ]
Any     == [ t |-> "any" ]
Eol     == [ t |-> "eol" ]
Cat(rs) == [ t |-> "cat", rs |-> rs ]
Star(r) == [ t |-> "star", r |-> r ]
Plus(r) == [ t |-> "plus", r |-> r ]
Lit(s)  == Cat([ k \in 1..Len(s) |-> Cls({ s[k] }) ])

RECURSIVE MatchEnds(_, _, _), StarEnds(_, _, _), CatEnds(_, _, _, _)
MatchEnds(r, s, i) ==
    CASE r.t = "cls"  -> IF i < Len(s) /\ s[i + 1] \in r.s THEN { i + 1 } ELSE {}
      [] r.t = "any"  -> IF i < Len(s) /\ s[i + 1] # "\n" THEN { i + 1 } ELSE {}
      [] r.t = "eol"  -> IF i = Len(s) \/ (i = Len(s) - 1 /\ s[i + 1] = "\n")
                         THEN { i } ELSE {}
      [] r.t = "cat"  -> CatEnds(r.rs, 1, s, { i })
      [] r.t = "star" -> StarEnds(r.r, s, { i })
      [] r.t = "plus" -> StarEnds(r.r, s, MatchEnds(r.r, s, i))

StarEnds(r, s, from) ==
    LET more == from \cup UNION { MatchEnds(r, s, j) : j \in from }
    IN  IF more = from THEN from ELSE StarEnds(r, s, more)

CatEnds(rs, k, s, from) ==
    IF k > Len(rs) \/ from = {} THEN from
    ELSE CatEnds(rs, k + 1, s, UNION { MatchEnds(rs[k], s, j) : j \in from })

ReMatch(r, s) == MatchEnds(r, s, 0) # {}

(***************************************************************************)
(* Lines, issue codes and issues                                           *)
(***************************************************************************)
COMMENT_SEP == "#"

Line(pos, content) == [ pos |-> pos, content |-> content ]

IssueCode(code, description) == [ code |-> code, description |-> description ]

DUMMY == IssueCode(<< "-", "1" >>, "Error dummy")
MAX_LENGTH == IssueCode(<< "S", "0", "0", "1" >>, "Too long")
INDENTATION_MULTIPLE_FOUR ==
    IssueCode(<< "S", "0", "0", "2" >>, "Indentation is not a multiple of four")
UNNECESSARY_SEMICOLON ==
    IssueCode(<< "S", "0", "0", "3" >>, "Unnecessary semicolon")
AT_LEAST_2_SPACES_BEFORE_INLINE_COMMENT ==
    IssueCode(<< "S", "0", "0", "4" >>,
              "At least two spaces required before inline comments")
TODO_FOUND == IssueCode(<< "S", "0", "0", "5" >>, "TODO found")
MORE_TWO_BLANK_LINES_PRECEDING_CODE_LINE ==
    IssueCode(<< "S", "0", "0", "6" >>,
              "More than two blank lines used before this line")
TOO_MANY_SPACES_AFTER_DEF_OR_CLASS ==
    IssueCode(<< "S", "0", "0", "7" >>,
              "Too many spaces after construction_name (def or class)")
CLASS_NAME_IN_CAMEL_CASE ==
    IssueCode(<< "S", "0", "0", "8" >>,
              "Class name class_name should be written in CamelCase")
FUNCTION_NAME_IN_SNAKE_CASE ==
    IssueCode(<< "S", "0", "0", "9" >>,
              "Function name function_name should be written in snake_case")
ARGUMENT_NAME_SNAKE_CASE ==
    IssueCode(<< "S", "0", "1", "0" >>,
              "Argument name arg_name should be written in snake_case")
VARIABLE_NAME_SNAKE_CASE ==
    IssueCode(<< "S", "0", "1", "1" >>,
              "Variable var_name should be written in snake_case")
DEFAULT_ARGUMENT_MUTABLE ==
    IssueCode(<< "S", "0", "1", "2" >>, "The default argument value is mutable")

Issue(file_name, pos, code) ==
    [ file_name |-> file_name, pos |-> pos, code |-> code ]

(***************************************************************************)
(* LineFormatter                                                           *)
(***************************************************************************)
remove_comment(line) ==
    LET comment_pos == Find(line.content, COMMENT_SEP)
    IN  IF comment_pos = -1 THEN line
        ELSE Line(line.pos, Slice(line.content, 0, comment_pos))

remove_finishing_spaces(line) == Line(line.pos, RStrip(line.content))

remove_leading_spaces(line) == Line(line.pos, LStrip(line.content))

(***************************************************************************)
(* The stateless line rules: each check returns an issue code, DUMMY when  *)
(* the rule does not fire.                                                 *)
(***************************************************************************)
PEP8_MAX_LINE_LENGTH == 79

MaxLineLength(line) ==
    IF Len(line.content) > PEP8_MAX_LINE_LENGTH THEN MAX_LENGTH ELSE DUMMY

IndentationMultipleOfFour(line) ==
    LET line_len == Len(line.content)
        leading_spaces_cnt == Len(LStrip(line.content))
    IN  IF (line_len - leading_spaces_cnt) % 4 # 0
        THEN INDENTATION_MULTIPLE_FOUR ELSE DUMMY

SEMICOLON_SEP == ";"

UnnecessarySemicolonAfterStatement(line) ==
    LET new_line == remove_finishing_spaces(remove_comment(line))
    IN  IF Len(new_line.content) > 0
           /\ new_line.content[Len(new_line.content)] = SEMICOLON_SEP
        THEN UNNECESSARY_SEMICOLON ELSE DUMMY

\* The while loop of AtLeastTwoSpacesBeforeInlineComment.check: the number of
\* whitespace characters of content at the 0-based offsets idx, idx - 1, ...
RECURSIVE SpacesBackFrom(_, _)
SpacesBackFrom(content, idx) ==
    IF idx >= 0 /\ content[idx + 1] \in SpaceChars
    THEN 1 + SpacesBackFrom(content, idx - 1)
    ELSE 0

\* The offset of the comment separator is taken in the left-stripped line and
\* the characters before it are read in the line as given.
AtLeastTwoSpacesBeforeInlineComment(line) ==
    LET new_line == remove_leading_spaces(line)
        comment_sep_pos == Find(new_line.content, COMMENT_SEP)
    IN  IF StartsWith(new_line.content, << COMMENT_SEP >>) THEN DUMMY
        ELSE IF comment_sep_pos = -1 THEN DUMMY
        ELSE IF SpacesBackFrom(line.content, comment_sep_pos - 1) < 2
             THEN AT_LEAST_2_SPACES_BEFORE_INLINE_COMMENT
             ELSE DUMMY

TODO_KEYWORD == << "t", "o", "d", "o" >>

extract_comment(line) ==
    LET comment_sep_pos == Find(line.content, COMMENT_SEP)
    IN  IF comment_sep_pos = -1 THEN << >>
        ELSE Slice(line.content, comment_sep_pos, Len(line.content))

TodoFound(line) ==
    IF Contains(Lower(extract_comment(line)), TODO_KEYWORD)
    THEN TODO_FOUND ELSE DUMMY

\* the rule object keeps the first list it was given
set_prev_lines_once(rule_ref, list_ref) ==
    IF rule_ref = 0 THEN list_ref ELSE rule_ref

\* MoreThanTwoBlankLinesPrecedingCodeLine.set_prev_lines: the rule object now
\* refers to the list given (lists are named by the number of the call that
\* allocated them; 0 is None)
set_prev_lines(rule_ref, list_ref) == list_ref

\* MoreThanTwoBlankLinesPrecedingCodeLine.check, on the list the rule refers to
MoreThanTwoBlankLinesPrecedingCodeLine(rule_prev) ==
    IF Len(rule_prev) <= 2 THEN DUMMY
    ELSE IF rule_prev[Len(rule_prev) - 2].content = << >>
            /\ rule_prev[Len(rule_prev) - 1].content = << >>
            /\ rule_prev[Len(rule_prev)].content = << >>
         THEN MORE_TWO_BLANK_LINES_PRECEDING_CODE_LINE
         ELSE DUMMY

KwClass == Lit(<< "c", "l", "a", "s", "s" >>)
KwDef   == Lit(<< "d", "e", "f" >>)
S1      == Cls(SpaceChars)
W1      == Cls(WordChars)
Ch(c)   == Cls({ c })

\* ^class\s+[\w\d]+\(*.*?\)*:\s*
ClassTemplate ==
    Cat(<< KwClass, Plus(S1), Plus(W1), Star(Ch("(")), Star(Any),
           Star(Ch(")")), Ch(":"), Star(S1) >>)
\* ^class\s[\w\d]+\(*.*?\)*:\s*
ClassOneSpaceTemplate ==
    Cat(<< KwClass, S1, Plus(W1), Star(Ch("(")), Star(Any),
           Star(Ch(")")), Ch(":"), Star(S1) >>)

TooManySpacesAfterClass(line) ==
    LET new_line == remove_leading_spaces(line)
    IN  IF ~ReMatch(ClassTemplate, new_line.content) THEN DUMMY
        ELSE IF ~ReMatch(ClassOneSpaceTemplate, new_line.content)
             THEN TOO_MANY_SPACES_AFTER_DEF_OR_CLASS
             ELSE DUMMY

\* ^def\s+[\w\d]+\(.*?\):\s*
DefTemplate ==
    Cat(<< KwDef, Plus(S1), Plus(W1), Ch("("), Star(Any), Ch(")"), Ch(":"),
           Star(S1) >>)
\* ^def\s_*[\w\d]+\(.*?\):\s*
DefOneSpaceTemplate ==
    Cat(<< KwDef, S1, Star(Ch("_")), Plus(W1), Ch("("), Star(Any), Ch(")"),
           Ch(":"), Star(S1) >>)

TooManySpacesAfterDef(line) ==
    LET new_line == remove_leading_spaces(line)
    IN  IF ~ReMatch(DefTemplate, new_line.content) THEN DUMMY
        ELSE IF ~ReMatch(DefOneSpaceTemplate, new_line.content)
             THEN TOO_MANY_SPACES_AFTER_DEF_OR_CLASS
             ELSE DUMMY

\* class\s+[\w\d]+\(*.*\)*:\s*$
ClassHeaderTemplate ==
    Cat(<< KwClass, Plus(S1), Plus(W1), Star(Ch("(")), Star(Any),
           Star(Ch(")")), Ch(":"), Star(S1), Eol >>)
\* ^class\s+([A-Z][a-z]+)+\(*.*?\)*:
ClassNameCamelCase ==
    Cat(<< KwClass, Plus(S1),
           Plus(Cat(<< Cls(UpperChars), Plus(Cls(LowerChars)) >>)),
           Star(Ch("(")), Star(Any), Star(Ch(")")), Ch(":") >>)

ClassNameInCamelCase(line) ==
    LET new_line == remove_leading_spaces(line)
    IN  IF ~ReMatch(ClassHeaderTemplate, new_line.content) THEN DUMMY
        ELSE IF ~ReMatch(ClassNameCamelCase, new_line.content)
             THEN CLASS_NAME_IN_CAMEL_CASE
             ELSE DUMMY

\* def\s+[\w\d_]+\(.*\):\s*$
DefHeaderTemplate ==
    Cat(<< KwDef, Plus(S1), Plus(W1), Ch("("), Star(Any), Ch(")"), Ch(":"),
           Star(S1), Eol >>)
\* ^def\s+__[\w]+?__\(.*?\):\s*
DunderTemplate ==
    Cat(<< KwDef, Plus(S1), Ch("_"), Ch("_"), Plus(W1), Ch("_"), Ch("_"),
           Ch("("), Star(Any), Ch(")"), Ch(":"), Star(S1) >>)
\* ^def\s_*([a-z0-9]+_*)+\(.*\):\s*
DefNameSnakeCase ==
    Cat(<< KwDef, S1, Star(Ch("_")),
           Plus(Cat(<< Plus(Cls(LowerChars \cup DigitChars)), Star(Ch("_")) >>)),
           Ch("("), Star(Any), Ch(")"), Ch(":"), Star(S1) >>)

is_def_declaration(line) == ReMatch(DefHeaderTemplate, line.content)

is_dunder_method(line) == ReMatch(DunderTemplate, line.content)

FunctionNameInSnakeCase(line) ==
    LET new_line == remove_leading_spaces(line)
    IN  IF ~is_def_declaration(new_line) THEN DUMMY
        ELSE IF is_dunder_method(new_line) THEN DUMMY
        ELSE IF ~ReMatch(DefNameSnakeCase, new_line.content)
             THEN FUNCTION_NAME_IN_SNAKE_CASE
             ELSE DUMMY

\* [a-z]+(_[a-z]+)*
ArgTemplate ==
    Cat(<< Plus(Cls(LowerChars)),
           Star(Cat(<< Ch("_"), Plus(Cls(LowerChars)) >>)) >>)

is_arg_snake_case(arg) == ReMatch(ArgTemplate, arg)

(***************************************************************************)
(* check_file_line_by_line: the rules in the order of line_by_line_rules() *)
(***************************************************************************)
\* the comparison with the sentinel left out
is_error_unfiltered(error) == TRUE

\* error != IssueCodes.DUMMY
is_error(error) == error # DUMMY

\* What the rules return for one line, in rule order.  The blank-run rule is
\* skipped (continue) on a line whose content is empty; otherwise it is given
\* the history list and checked.
rule_results(line, prev_lines_now) ==
    << MaxLineLength(line),
       IndentationMultipleOfFour(line),
       UnnecessarySemicolonAfterStatement(line),
       AtLeastTwoSpacesBeforeInlineComment(line),
       TodoFound(line) >>
    \o (IF line.content = << >> THEN << >>
        ELSE << MoreThanTwoBlankLinesPrecedingCodeLine(prev_lines_now) >>)
    \o << TooManySpacesAfterClass(line),
          TooManySpacesAfterDef(line),
          ClassNameInCamelCase(line),
          FunctionNameInSnakeCase(line) >>

\* The issues one line adds to the list
line_issues(file_name, line, prev_lines_now) ==
    LET errors == SelectSeq(rule_results(line, prev_lines_now), is_error)
    IN  [ k \in 1..Len(errors) |-> Issue(file_name, line.pos, errors[k]) ]

\* check_file_line_by_line as a whole, for a rule object that is given the
\* history before every check: the issues of the lines from position p on
RECURSIVE check_lines_from(_, _, _, _)
check_lines_from(file_name, file_lines, p, history) ==
    IF p > Len(file_lines) THEN << >>
    ELSE LET line == Line(p, RStrip(file_lines[p]))
         IN  line_issues(file_name, line, history)
             \o check_lines_from(file_name, file_lines, p + 1, Append(history, line))

check_file_line_by_line(file_name, file) ==
    check_lines_from(file_name, Split(file), 1, << >>)

(***************************************************************************)
(* The syntax pass of main(): the tree is the result of ast.parse, given   *)
(* as the FunctionDef nodes in the order of ast.walk, or the SyntaxError   *)
(* that ast.parse raised.                                                  *)
(***************************************************************************)
SyntaxError == [ ok |-> FALSE, nodes |-> << >> ]
ParsedTree(nodes) == [ ok |-> TRUE, nodes |-> nodes ]

\* check for S010
RECURSIVE arg_issues(_, _)
arg_issues(file_name, args) ==
    IF args = << >> THEN << >>
    ELSE (IF ~is_arg_snake_case(Head(args).arg)
          THEN << Issue(file_name, Head(args).lineno, ARGUMENT_NAME_SNAKE_CASE) >>
          ELSE << >>)
         \o arg_issues(file_name, Tail(args))

\* check for S011
RECURSIVE body_issues(_, _)
body_issues(file_name, body) ==
    IF body = << >> THEN << >>
    ELSE (IF Head(body).type = "Assign"
             /\ Len(Head(body).targets) = 1
             /\ Head(body).targets[1].type = "Name"
             /\ ~is_arg_snake_case(Head(body).targets[1].id)
          THEN << Issue(file_name, Head(body).lineno, VARIABLE_NAME_SNAKE_CASE) >>
          ELSE << >>)
         \o body_issues(file_name, Tail(body))

is_mutable(default) == default.type \in { "List", "Dict", "Set" }

\* the loop keeping the line of the first mutable default
RECURSIVE scan_defaults_first(_, _, _)
scan_defaults_first(defaults, has_mutable, idx) ==
    IF defaults = << >> THEN << has_mutable, idx >>
    ELSE IF is_mutable(Head(defaults)) /\ ~has_mutable
         THEN scan_defaults_first(Tail(defaults), TRUE, Head(defaults).lineno)
         ELSE scan_defaults_first(Tail(defaults), has_mutable, idx)

\* check for S012: the loop over node.args.defaults, from (has_mutable, idx)
RECURSIVE scan_defaults(_, _, _)
scan_defaults(defaults, has_mutable, idx) ==
    IF defaults = << >> THEN << has_mutable, idx >>
    ELSE IF is_mutable(Head(defaults))
         THEN scan_defaults(Tail(defaults), TRUE, Head(defaults).lineno)
         ELSE scan_defaults(Tail(defaults), has_mutable, idx)

default_issues(file_name, defaults) ==
    LET r == scan_defaults(defaults, FALSE, -1)
    IN  IF r[1] THEN << Issue(file_name, r[2], DEFAULT_ARGUMENT_MUTABLE) >>
        ELSE << >>

node_issues(file_name, node) ==
    arg_issues(file_name, node.args)
    \o body_issues(file_name, node.body)
    \o default_issues(file_name, node.defaults)

RECURSIVE tree_issues(_, _)
tree_issues(file_name, nodes) ==
    IF nodes = << >> THEN << >>
    ELSE node_issues(file_name, Head(nodes)) \o tree_issues(file_name, Tail(nodes))

(***************************************************************************)
(* Sorting and printing                                                    *)
(***************************************************************************)
\* (i.file_name, i.pos, i.code.code) < (j.file_name, j.pos, j.code.code)
key_less(i, j) ==
    \/ StrLess(i.file_name, j.file_name)
    \/ /\ i.file_name = j.file_name
       /\ \/ i.pos < j.pos
          \/ i.pos = j.pos /\ StrLess(i.code.code, j.code.code)

\* list.sort(key = ...): a stable sort, here by insertion
RECURSIVE insert_sorted(_, _)
insert_sorted(sorted, x) ==
    IF sorted = << >> THEN << x >>
    ELSE IF key_less(x, Head(sorted)) THEN << x >> \o sorted
    ELSE << Head(sorted) >> \o insert_sorted(Tail(sorted), x)

\* the list printed as collected
sort_issues_skipped(seq) == seq

RECURSIVE sort_issues(_)
sort_issues(seq) ==
    IF seq = << >> THEN << >>
    ELSE insert_sorted(sort_issues(SubSeq(seq, 1, Len(seq) - 1)), seq[Len(seq)])

\* The fields of one printed line:
\* "{file_name}: Line {pos}: {code.code} {code.description}"
rendered(issue) ==
    [ file_name   |-> issue.file_name,
      pos         |-> issue.pos,
      code        |-> issue.code.code,
      description |-> issue.code.description ]

(***************************************************************************)
(* scan_python_file: the paths found, sorted                               *)
(***************************************************************************)
RECURSIVE sort_paths(_)
sort_paths(paths) ==
    IF paths = {} THEN << >>
    ELSE LET first == CHOOSE p \in paths : \A q \in paths : ~StrLess(q, p)
         IN  << first >> \o sort_paths(paths \ { first })

scan_python_file(paths) == sort_paths(paths)

(***************************************************************************)
(* The inputs of a run                                                     *)
(***************************************************************************)
MaxFiles == 2

PathA  == << "a", ".", "p", "y" >>
PathAA == << "a", "a", ".", "p", "y" >>
PathB  == << "b", ".", "p", "y" >>
Paths  == { PathA, PathAA, PathB }

SyntaxErrorFile ==
    [ content |->
        << "x", " ", "=", " ", "1", ";", "\n" >>
        \o << "d", "e", "f", " ", "(", "\n" >>,
      tree |-> SyntaxError ]

BadNamesFile ==
    [ content |->
        << "d", "e", "f", " ", "f", "(", "A", ",", " ", "B", ")", ":", "\n" >>
        \o << " ", " ", " ", " ", "X", " ", "=", " ", "1", ";", " ", "Y", " ", "=", " ", "2", "\n" >>
        \o << " ", " ", " ", " ", "r", "e", "t", "u", "r", "n", " ", "A", ";" >>,
      tree |-> ParsedTree(<< [args |-> << [arg |-> << "A" >>, lineno |-> 1], [arg |-> << "B" >>, lineno |-> 1] >>,
             body |-> << [type |-> "Assign", targets |-> << [type |-> "Name", id |-> << "X" >>] >>, lineno |-> 2],
                        [type |-> "Assign", targets |-> << [type |-> "Name", id |-> << "Y" >>] >>, lineno |-> 2],
                        [type |-> "Return", targets |-> <<  >>, lineno |-> 3] >>,
             defaults |-> <<  >>] >>) ]

MutableDefaultsFile ==
    [ content |->
        << "d", "e", "f", " ", "g", "(", "a", "=", "[", "]", ",", "\n" >>
        \o << " ", " ", " ", " ", " ", " ", "b", "=", "{", "}", ")", ":", "\n" >>
        \o << " ", " ", " ", " ", "c", ",", " ", "d", " ", "=", " ", "1", ",", " ", "2", "\n" >>
        \o << " ", " ", " ", " ", "a", " ", "=", " ", "d", " ", "=", " ", "c" >>,
      tree |-> ParsedTree(<< [args |-> << [arg |-> << "a" >>, lineno |-> 1], [arg |-> << "b" >>, lineno |-> 2] >>,
             body |-> << [type |-> "Assign", targets |-> << [type |-> "Tuple", id |-> << >>] >>, lineno |-> 3],
                        [type |-> "Assign", targets |-> << [type |-> "Name", id |-> << "a" >>], [type |-> "Name", id |-> << "d" >>] >>, lineno |-> 4] >>,
             defaults |-> << [type |-> "List", lineno |-> 1], [type |-> "Dict", lineno |-> 2] >>] >>) ]

BlankRunFile ==
    [ content |->
        << "i", "m", "p", "o", "r", "t", " ", "o", "s", "\n" >>
        \o << "\n" >>
        \o << "\n" >>
        \o << "\n" >>
        \o << "z", " ", "=", " ", "1", " ", "#", " ", "T", "O", "D", "O", "\n" >>,
      tree |-> ParsedTree(<<  >>) ]

HeadersFile ==
    [ content |->
        << "c", "l", "a", "s", "s", " ", " ", "f", "o", "o", ":", "\n" >>
        \o << " ", " ", " ", " ", "d", "e", "f", " ", " ", "B", "a", "r", "(", "s", "e", "l", "f", ",", " ", " ", "Q", "=", "1", ")", ":", "\n" >>
        \o << " ", " ", " ", " ", " ", " ", " ", " ", "p", "a", "s", "s" >>,
      tree |-> ParsedTree(<< [args |-> << [arg |-> << "s", "e", "l", "f" >>, lineno |-> 2], [arg |-> << "Q" >>, lineno |-> 2] >>,
             body |-> << [type |-> "Pass", targets |-> <<  >>, lineno |-> 3] >>,
             defaults |-> << [type |-> "Constant", lineno |-> 2] >>] >>) ]

MixedArgsFile ==
    [ content |->
        << "d", "e", "f", " ", "o", "k", "(", "g", "o", "o", "d", "_", "a", "r", "g", ",", " ", "b", "a", "d", "A", "r", "g", ")", ":", "\n" >>
        \o << " ", " ", " ", " ", "r", "e", "t", "u", "r", "n", " ", "g", "o", "o", "d", "_", "a", "r", "g", "\n" >>,
      tree |-> ParsedTree(<< [args |-> << [arg |-> << "g", "o", "o", "d", "_", "a", "r", "g" >>, lineno |-> 1], [arg |-> << "b", "a", "d", "A", "r", "g" >>, lineno |-> 1] >>,
             body |-> << [type |-> "Return", targets |-> <<  >>, lineno |-> 2] >>,
             defaults |-> <<  >>] >>) ]

LongLineFile ==
    [ content |->
        << "#", " ", "x", "x", "x", "x", "x", "x", "x", "x", "x", "x", "x", "x", "x", "x", "x", "x", "x", "x", "x", "x", "x", "x", "x", "x", "x", "x", "x", "x", "x", "x", "x", "x", "x", "x", "x", "x", "x", "x", "x", "x", "x", "x", "x", "x", "x", "x", "x", "x", "x", "x", "x", "x", "x", "x", "x", "x", "x", "x", "x", "x", "x", "x", "x", "x", "x", "x", "x", "x", "x", "x", "x", "x", "x", "x", "x", "x", "x", "x" >>,
      tree |-> ParsedTree(<<  >>) ]

CleanFile ==
    [ content |->
        << "y", " ", "=", " ", "2", "\n" >>
        \o << "\n" >>
        \o << "\n" >>
        \o << "\n" >>,
      tree |-> ParsedTree(<<  >>) ]

Catalog ==
    { SyntaxErrorFile, BadNamesFile, MutableDefaultsFile, BlankRunFile,
      HeadersFile, MixedArgsFile, LongLineFile, CleanFile }

\* Sequences over S of length at most n
SeqsUpTo(S, n) == UNION { [ 1..k -> S ] : k \in 0..n }

\* Texts over a small alphabet.  Whether such a text parses is ast.parse's
\* answer, which the model does not compute: either outcome is drawn.
MaxText == 4
TextChars == { "\n", " ", "x" }
Texts == SeqsUpTo(TextChars, MaxText)
TextFiles ==
    { [ content |-> c, tree |-> t ] :
        c \in Texts, t \in { SyntaxError, ParsedTree(<< >>) } }

\* Function definitions as ast.parse hands them over
MaxArgs == 2
MaxDefaults == 2
MaxBody == 1
MaxLineNo == 2
LineNos == 1..MaxLineNo

ArgNames == { << "a", "_", "b" >>, << "A" >>, << "a", "B" >> }
ArgChoices == { [ arg |-> a, lineno |-> n ] : a \in ArgNames, n \in LineNos }
DefaultChoices ==
    { [ type |-> t, lineno |-> n ] :
        t \in { "List", "Dict", "Set", "Constant" }, n \in LineNos }
NameTarget(id) == [ type |-> "Name", id |-> id ]
TargetChoices ==
    { << NameTarget(<< "X" >>) >>,
      << NameTarget(<< "x" >>) >>,
      << NameTarget(<< "X" >>), NameTarget(<< "Y" >>) >>,
      << [ type |-> "Tuple", id |-> << >> ] >>,
      << [ type |-> "Attribute", id |-> << >> ] >> }
StmtChoices ==
    { [ type |-> "Assign", targets |-> t, lineno |-> n ] :
        t \in TargetChoices, n \in LineNos }
    \cup { [ type |-> "Pass", targets |-> << >>, lineno |-> n ] : n \in LineNos }

ArgNodes ==
    { [ args |-> a, body |-> << >>, defaults |-> << >> ] :
        a \in SeqsUpTo(ArgChoices, MaxArgs) }
\* every default belongs to a parameter
DefaultNodes ==
    { [ args |-> [ k \in 1..Len(d) |-> [ arg |-> << "a" >>, lineno |-> d[k].lineno ] ],
        body |-> << >>,
        defaults |-> d ] :
        d \in SeqsUpTo(DefaultChoices, MaxDefaults) }
BodyNodes ==
    { [ args |-> << >>, body |-> b, defaults |-> << >> ] :
        b \in SeqsUpTo(StmtChoices, MaxBody) }
Nodes == ArgNodes \cup DefaultNodes \cup BodyNodes

\* a second function definition of the same file
OtherNode ==
    [ args |-> << [ arg |-> << "B" >>, lineno |-> 1 ] >>,
      body |-> << [ type |-> "Assign", targets |-> << NameTarget(<< "X" >>) >>,
                    lineno |-> 1 ] >>,
      defaults |-> << [ type |-> "List", lineno |-> 1 ] >> ]

TreeContent == << "x", ";", "\n", "x", ";" >>
TreeFiles ==
    { [ content |-> TreeContent, tree |-> ParsedTree(t) ] :
        t \in { << n >> : n \in Nodes }
              \cup { << OtherNode, n >> : n \in Nodes }
              \cup { << n, OtherNode >> : n \in Nodes } }

\* Lines for the check methods
MaxLineLen == 5
MaxNameLen == 5
MaxDefSpaces == 2
LineChars == { " ", COMMENT_SEP, "x" }
CommentLines == SeqsUpTo(LineChars, MaxLineLen)
NameChars == { "a", "A", "_" }
DefNames == SeqsUpTo(NameChars, MaxNameLen) \ { << >> }
Spaces(n) == [ k \in 1..n |-> " " ]
DefHeader(indent, n, name) ==
    Spaces(indent) \o << "d", "e", "f" >> \o Spaces(n) \o name \o << "(", ")", ":" >>
DefHeaders ==
    { DefHeader(indent, n, name) :
        indent \in { 0, 4 }, n \in 1..MaxDefSpaces, name \in DefNames }

(***************************************************************************)
(* The run: main()                                                         *)
(***************************************************************************)
VARIABLES
    files,            \* the files of the run, as scan_python_file returns them
    fi,               \* how many files the for loop of main has taken
    pc,               \* where main is
    pos,              \* the position of the next line of the current file
    prev_lines,       \* prev_lines[k]: the history list the k-th call of
                      \* check_file_line_by_line allocated
    rule_prev_lines,  \* which of these lists the blank-run rule object holds
                      \* (0: None)
    issues,           \* the issues of the current file
    output,           \* the lines printed so far
    line_in,          \* a line handed to the rules' check methods directly
    verdict           \* what the check methods returned for it

run_vars == << files, fi, pc, pos, prev_lines, rule_prev_lines, issues, output >>
rule_vars == << line_in, verdict >>
vars == << run_vars, rule_vars >>

\* the lines of the current file, as check_file_line_by_line splits them
lines == Split(files[fi].content)

RunOf(paths, data) ==
    LET sorted == scan_python_file(paths)
    IN  /\ files = [ k \in 1..Len(sorted) |->
                       [ file_name |-> sorted[k],
                         content   |-> data[sorted[k]].content,
                         tree      |-> data[sorted[k]].tree ] ]
        /\ fi = 0
        /\ pc = "next_file"
        /\ pos = 0
        /\ prev_lines = [ k \in 1..Len(sorted) |-> << >> ]
        /\ rule_prev_lines = 0
        /\ issues = << >>
        /\ output = << >>
        /\ line_in = Line(0, << >>)
        /\ verdict = << >>

Init ==
    \E paths \in SUBSET Paths :
        /\ Cardinality(paths) <= MaxFiles
        /\ \E data \in [ paths -> Catalog ] : RunOf(paths, data)

\* for file_name in files: open, read, and the start of
\* check_file_line_by_line.  The paths come from scan_python_file, which has
\* just found them: open_python_file is taken to succeed.
StartFile ==
    /\ pc = "next_file"
    /\ fi < Len(files)
    /\ fi' = fi + 1
    /\ issues' = << >>
    /\ prev_lines' = [ prev_lines EXCEPT ![fi + 1] = << >> ]
    /\ pos' = 1
    /\ pc' = "lines"
    /\ UNCHANGED << files, rule_prev_lines, output >>
    /\ UNCHANGED rule_vars

\* one turn of the loop over the lines of the file.  held is the list the
\* rule object refers to; it is read only when the line is not empty, that
\* is after set_prev_lines.
ProcessLine ==
    /\ pc = "lines"
    /\ pos <= Len(lines)
    /\ LET line == Line(pos, RStrip(lines[pos]))
           ref  == IF line.content = << >> THEN rule_prev_lines
                   ELSE set_prev_lines(rule_prev_lines, fi)
           held == IF ref = 0 THEN << >> ELSE prev_lines[ref]
       IN  /\ issues' = issues \o line_issues(files[fi].file_name, line, held)
           /\ rule_prev_lines' = ref
           /\ prev_lines' = [ prev_lines EXCEPT ![fi] = Append(@, line) ]
    /\ pos' = pos + 1
    /\ pc' = IF pos = Len(lines) THEN "parse" ELSE "lines"
    /\ UNCHANGED << files, fi, output >>
    /\ UNCHANGED rule_vars

\* ast.parse raises: nothing in main catches it, and the program ends
ParseFail ==
    /\ pc = "parse"
    /\ ~files[fi].tree.ok
    /\ pc' = "crashed"
    /\ UNCHANGED << files, fi, pos, prev_lines, rule_prev_lines, issues, output >>
    /\ UNCHANGED rule_vars

\* ast.parse returns and the function definitions are checked
SyntaxPass ==
    /\ pc = "parse"
    /\ files[fi].tree.ok
    /\ issues' = issues \o tree_issues(files[fi].file_name, files[fi].tree.nodes)
    /\ pc' = "print"
    /\ UNCHANGED << files, fi, pos, prev_lines, rule_prev_lines, output >>
    /\ UNCHANGED rule_vars

\* issues.sort(...) and the print loop
PrintIssues ==
    /\ pc = "print"
    /\ LET sorted == sort_issues(issues)
       IN  /\ issues' = sorted
           /\ output' = output \o [ k \in 1..Len(sorted) |-> rendered(sorted[k]) ]
    /\ pc' = "next_file"
    /\ UNCHANGED << files, fi, pos, prev_lines, rule_prev_lines >>
    /\ UNCHANGED rule_vars

\* the for loop of main is exhausted
Finish ==
    /\ pc = "next_file"
    /\ fi = Len(files)
    /\ pc' = "done"
    /\ UNCHANGED << files, fi, pos, prev_lines, rule_prev_lines, issues, output >>
    /\ UNCHANGED rule_vars

Next ==
    \/ StartFile
    \/ ProcessLine
    \/ ParseFail
    \/ SyntaxPass
    \/ PrintIssues
    \/ Finish

Spec == Init /\ [][Next]_vars

\* Runs over the generated texts: one file, or two files one after the other
InitText ==
    \/ \E f \in TextFiles : RunOf({ PathA }, [ p \in { PathA } |-> f ])
    \/ \E f1 \in TextFiles, f2 \in TextFiles :
          /\ Len(f1.content) + Len(f2.content) <= MaxText
          /\ RunOf({ PathA, PathB }, [ p \in { PathA, PathB } |->
                                         IF p = PathA THEN f1 ELSE f2 ])

\* Runs over the generated function definitions
InitTree ==
    \E f \in TreeFiles : RunOf({ PathA }, [ p \in { PathA } |-> f ])

SpecAll == (Init \/ InitText \/ InitTree) /\ [][Next]_vars

(***************************************************************************)
(* The check methods of the rules, called on a line directly               *)
(***************************************************************************)
InitLine ==
    /\ files = << >>
    /\ fi = 0
    /\ pc = "check"
    /\ pos = 0
    /\ prev_lines = << >>
    /\ rule_prev_lines = 0
    /\ issues = << >>
    /\ output = << >>
    /\ \E content \in CommentLines \cup DefHeaders : line_in = Line(1, content)
    /\ verdict = << >>

CheckLine ==
    /\ pc = "check"
    /\ verdict' = << AtLeastTwoSpacesBeforeInlineComment(line_in),
                     TooManySpacesAfterDef(line_in),
                     FunctionNameInSnakeCase(line_in) >>
    /\ pc' = "checked"
    /\ UNCHANGED << files, fi, pos, prev_lines, rule_prev_lines, issues, output,
                    line_in >>

NextLine == CheckLine

SpecLine == InitLine /\ [][NextLine]_vars

(***************************************************************************)
(* Properties                                                              *)
(***************************************************************************)
\* main has ended
Terminal == pc \in { "done", "crashed" }

\* the run is through with file k: it was printed, or the run ended in it
Ended(k) == k < fi \/ (k = fi /\ pc \in { "next_file", "done", "crashed" })

\* the issues of file k were printed
Printed(k) == k < fi \/ (k = fi /\ pc \in { "next_file", "done" })

OutputSet == Range(output)

SyntaxCodes ==
    { ARGUMENT_NAME_SNAKE_CASE.code, VARIABLE_NAME_SNAKE_CASE.code,
      DEFAULT_ARGUMENT_MUTABLE.code }

\* C1: when a file fails to parse, the run does not crash, the issues of the
\* line rules for that file are printed and no S010, S011 or S012 is printed
\* for it.
C1_LineIssuesSurviveParseFailure ==
    \A k \in 1..Len(files) :
        (~files[k].tree.ok /\ Ended(k)) =>
            /\ pc # "crashed"
            /\ \A i \in Range(check_file_line_by_line(files[k].file_name,
                                                      files[k].content)) :
                   rendered(i) \in OutputSet
            /\ \A o \in OutputSet :
                   o.file_name = files[k].file_name => o.code \notin SyntaxCodes

\* C2: when main has ended, every file that comes after a file that failed
\* to parse has been read, checked and printed.
C2_LaterFilesProcessed ==
    Terminal =>
        \A i \in 1..Len(files), j \in 1..Len(files) :
            (i < j /\ ~files[i].tree.ok) => Printed(j)

\* C3: no two printed issues have the same file name, position and code.
C3_NoDuplicateIssues ==
    \A a \in 1..Len(output), b \in 1..Len(output) :
        a # b => << output[a].file_name, output[a].pos, output[a].code >>
                 # << output[b].file_name, output[b].pos, output[b].code >>

CatalogCodes ==
    { MAX_LENGTH, INDENTATION_MULTIPLE_FOUR, UNNECESSARY_SEMICOLON,
      AT_LEAST_2_SPACES_BEFORE_INLINE_COMMENT, TODO_FOUND,
      MORE_TWO_BLANK_LINES_PRECEDING_CODE_LINE,
      TOO_MANY_SPACES_AFTER_DEF_OR_CLASS, CLASS_NAME_IN_CAMEL_CASE,
      FUNCTION_NAME_IN_SNAKE_CASE, ARGUMENT_NAME_SNAKE_CASE,
      VARIABLE_NAME_SNAKE_CASE, DEFAULT_ARGUMENT_MUTABLE }

\* C4: no issue of a file's issue list and no printed issue carries the
\* sentinel code: each carries one of S001..S012.
C4_NoSentinelIssue ==
    /\ \A k \in 1..Len(issues) :
           issues[k].code # DUMMY /\ issues[k].code \in CatalogCodes
    /\ \A k \in 1..Len(output) :
           /\ output[k].code # DUMMY.code
           /\ \E c \in CatalogCodes :
                  output[k].code = c.code /\ output[k].description = c.description

\* C4's case: a run has printed issues of both passes, and some rule returned
\* the sentinel on a line of the file (a line with fewer issues than rules).
C4_Witness ==
    /\ pc = "done"
    /\ \E a \in 1..Len(output), b \in 1..Len(output) :
           /\ output[a].code = UNNECESSARY_SEMICOLON.code
           /\ output[b].code \in SyntaxCodes

\* (file_name, pos, code) of a printed line is at most that of another
OutputLeq(a, b) ==
    \/ StrLess(a.file_name, b.file_name)
    \/ /\ a.file_name = b.file_name
       /\ \/ a.pos < b.pos
          \/ a.pos = b.pos /\ (a.code = b.code \/ StrLess(a.code, b.code))

\* C5: the files are in strictly increasing path order and the printed
\* issues are in non-decreasing order of (file_name, position, code).
C5_OutputSorted ==
    /\ \A k \in 1..(Len(files) - 1) :
           StrLess(files[k].file_name, files[k + 1].file_name)
    /\ \A k \in 1..(Len(output) - 1) : OutputLeq(output[k], output[k + 1])

\* C5's case: two files were printed, with issues of both passes of one file,
\* and two codes at one position.
C5_Witness ==
    /\ pc = "done"
    /\ \E a \in 1..Len(output), b \in 1..Len(output) :
           output[a].file_name # output[b].file_name
    /\ \E a \in 1..Len(output), b \in 1..Len(output) :
           /\ a < b
           /\ output[a].file_name = output[b].file_name
           /\ output[a].pos = output[b].pos
           /\ output[a].code # output[b].code
    /\ \E a \in 1..Len(output), b \in 1..Len(output) :
           /\ a < b
           /\ output[a].file_name = output[b].file_name
           /\ output[a].code \in SyntaxCodes
           /\ output[b].code \notin SyntaxCodes

\* the content of the line at position p of the current file, as the rules
\* are given it (trailing whitespace removed)
ContentAt(p) == RStrip(lines[p])

S006At(p) ==
    { k \in 1..Len(issues) :
        /\ issues[k].pos = p
        /\ issues[k].code = MORE_TWO_BLANK_LINES_PRECEDING_CODE_LINE }

\* C6: after the line pass of any file of the run, S006 is reported at
\* position p (once) exactly when line p is not empty and the lines at p - 1,
\* p - 2 and p - 3 exist in this file and are empty; the lines of the files
\* before it play no part.
C6_BlankRunRule ==
    pc = "parse" =>
        \A p \in 1..Len(lines) :
            /\ Cardinality(S006At(p)) <= 1
            /\ S006At(p) # {} <=>
                   /\ ContentAt(p) # << >>
                   /\ p > 3
                   /\ ContentAt(p - 1) = << >>
                   /\ ContentAt(p - 2) = << >>
                   /\ ContentAt(p - 3) = << >>

\* C6's case: the second file of a run has been checked by the rule object
\* the first file used; the first file ends with three empty lines, the
\* second starts with a line that is not empty and has S006 further down.
C6_Witness ==
    /\ pc = "parse"
    /\ fi = 2
    /\ LET before == Split(files[1].content)
       IN  /\ Len(before) >= 3
           /\ \A k \in (Len(before) - 2)..Len(before) : RStrip(before[k]) = << >>
    /\ ContentAt(1) # << >>
    /\ S006At(1) = {}
    /\ \E p \in 1..Len(lines) : S006At(p) # {}

MutableIdx(node) ==
    { k \in 1..Len(node.defaults) : node.defaults[k].type \in { "List", "Dict", "Set" } }

LastMutableLine(node) ==
    node.defaults[CHOOSE k \in MutableIdx(node) :
                      \A j \in MutableIdx(node) : j <= k].lineno

IssuesAt(code, l) ==
    { k \in 1..Len(issues) : issues[k].code = code /\ issues[k].pos = l }

IssueLines == { issues[k].pos : k \in 1..Len(issues) }

CurrentNodes == files[fi].tree.nodes

\* C7: after the syntax pass of a file, the S012 issues are, line by line, as
\* many as the function definitions whose last list, dict or set default is
\* on that line: one per function that has such a default, none for the
\* others.
C7_OneMutableDefaultIssue ==
    pc = "print" =>
        \A l \in IssueLines \cup { LastMutableLine(CurrentNodes[n]) :
                     n \in { m \in 1..Len(CurrentNodes) :
                               MutableIdx(CurrentNodes[m]) # {} } } :
            Cardinality(IssuesAt(DEFAULT_ARGUMENT_MUTABLE, l))
            = Cardinality({ n \in 1..Len(CurrentNodes) :
                              /\ MutableIdx(CurrentNodes[n]) # {}
                              /\ LastMutableLine(CurrentNodes[n]) = l })

\* C7's case: a function with two mutable defaults on different lines has
\* been checked and S012 is at the line of the second only.
C7_Witness ==
    /\ pc = "print"
    /\ \E n \in 1..Len(CurrentNodes) :
           LET d == CurrentNodes[n].defaults
           IN  /\ Len(d) = 2
               /\ MutableIdx(CurrentNodes[n]) = { 1, 2 }
               /\ d[1].lineno # d[2].lineno
               /\ IssuesAt(DEFAULT_ARGUMENT_MUTABLE, d[2].lineno) # {}
               /\ IssuesAt(DEFAULT_ARGUMENT_MUTABLE, d[1].lineno) = {}

\* the parameters of the current file: (node, parameter) index pairs
ArgSlots ==
    UNION { { << n, a >> : a \in 1..Len(CurrentNodes[n].args) } :
              n \in 1..Len(CurrentNodes) }

\* the whole name is lowercase words joined by single underscores
WholeNameSnake(name) == Len(name) \in MatchEnds(ArgTemplate, name, 0)

\* C9: after the syntax pass of a file, the S010 issues are, line by line, as
\* many as the parameters declared on that line whose whole name is not
\* lowercase-with-underscores.
C9_OneIssuePerBadParameter ==
    pc = "print" =>
        \A l \in IssueLines \cup { CurrentNodes[s[1]].args[s[2]].lineno : s \in ArgSlots } :
            Cardinality(IssuesAt(ARGUMENT_NAME_SNAKE_CASE, l))
            = Cardinality({ s \in ArgSlots :
                              /\ CurrentNodes[s[1]].args[s[2]].lineno = l
                              /\ ~WholeNameSnake(CurrentNodes[s[1]].args[s[2]].arg) })

\* the whitespace characters immediately before the 0-based offset h of c
SpacesBefore(c, h) ==
    Cardinality({ j \in 1..h : \A i \in j..h : c[i] \in SpaceChars })

\* C8: the comment-spacing check returns S004 exactly when the left-stripped
\* line does not start with '#', the line contains a '#', and fewer than two
\* whitespace characters immediately precede the first '#' of the line;
\* otherwise it returns the sentinel.
C8_CommentSpacing ==
    pc = "checked" =>
        LET c == line_in.content
            h == Find(c, COMMENT_SEP)
        IN  /\ verdict[1] \in { AT_LEAST_2_SPACES_BEFORE_INLINE_COMMENT, DUMMY }
            /\ verdict[1] = AT_LEAST_2_SPACES_BEFORE_INLINE_COMMENT <=>
                   /\ ~StartsWith(LStrip(c), << COMMENT_SEP >>)
                   /\ h # -1
                   /\ SpacesBefore(c, h) < 2

\* What the code does: the statement holds of the lines that do not start
\* with whitespace
UnindentedCommentSpacing ==
    (pc = "checked" /\ LStrip(line_in.content) = line_in.content) =>
        LET c == line_in.content
            h == Find(c, COMMENT_SEP)
        IN  verdict[1] = AT_LEAST_2_SPACES_BEFORE_INLINE_COMMENT <=>
                /\ ~StartsWith(c, << COMMENT_SEP >>)
                /\ h # -1
                /\ SpacesBefore(c, h) < 2

\* the name of a def header: the word after "def" and the whitespace after it
HeaderName(c) ==
    LET rest == LStrip(SubSeq(LStrip(c), 4, Len(LStrip(c))))
        n    == Cardinality({ j \in 1..Len(rest) :
                                \A i \in 1..j : rest[i] \in WordChars })
    IN  SubSeq(rest, 1, n)

\* _*([a-z0-9]+_*)+ on the whole name
SnakeName(name) ==
    Len(name) \in MatchEnds(Cat(<< Star(Ch("_")),
                                   Plus(Cat(<< Plus(Cls(LowerChars \cup DigitChars)),
                                               Star(Ch("_")) >>)) >>),
                            name, 0)

\* __ ... __ on the whole name
DunderName(name) ==
    Len(name) \in MatchEnds(Cat(<< Ch("_"), Ch("_"), Plus(W1), Ch("_"), Ch("_") >>),
                            name, 0)

\* C10: for a single-line def header, the function-name check returns S009
\* exactly when the name is neither lowercase-with-underscores nor a dunder
\* name, however many spaces follow "def".
C10_NameRuleIndependentOfSpacing ==
    (pc = "checked" /\ is_def_declaration(remove_leading_spaces(line_in))) =>
        /\ verdict[3] \in { FUNCTION_NAME_IN_SNAKE_CASE, DUMMY }
        /\ verdict[3] = FUNCTION_NAME_IN_SNAKE_CASE <=>
               /\ ~SnakeName(HeaderName(line_in.content))
               /\ ~DunderName(HeaderName(line_in.content))

\* What the code does: the statement holds of the headers with exactly one
\* whitespace character after "def"
OneSpaceHeadersAgree ==
    (pc = "checked" /\ is_def_declaration(remove_leading_spaces(line_in))
       /\ LStrip(line_in.content)[5] \notin SpaceChars) =>
        /\ verdict[3] = FUNCTION_NAME_IN_SNAKE_CASE <=>
               /\ ~SnakeName(HeaderName(line_in.content))
               /\ ~DunderName(HeaderName(line_in.content))

\* What the code does: a parameter is reported when no prefix of its name
\* matches, as is_arg_snake_case decides
PrefixMatchDecidesS010 ==
    pc = "print" =>
        \A l \in IssueLines \cup { CurrentNodes[s[1]].args[s[2]].lineno : s \in ArgSlots } :
            Cardinality(IssuesAt(ARGUMENT_NAME_SNAKE_CASE, l))
            = Cardinality({ s \in ArgSlots :
                              /\ CurrentNodes[s[1]].args[s[2]].lineno = l
                              /\ ~is_arg_snake_case(CurrentNodes[s[1]].args[s[2]].arg) })

====
